---------------------------- MODULE Spec2Model ----------------------------
(***************************************************************************)
(* Model of the crypto-exchange swap form (src/components/crypto-exchange  *)
(* .tsx, first component definition, with src/utils/input-validation.ts).  *)
(*                                                                         *)
(* Strings that hold amounts are sequences of one-character strings, so    *)
(* that stripping commas, the format regex, parseFloat and toFixed are     *)
(* computed character by character.  Error messages are plain strings.     *)
(*                                                                         *)
(* Numbers are exact decimals [nan, n, f]: n is the integer part and f the *)
(* fraction in units of 10^-MaxFracDigits.  Products with the rate are     *)
(* formed exactly and rounded half-up where the code calls toFixed; the    *)
(* amounts the model feeds in are chosen away from exact rounding ties,    *)
(* where the binary product of the code could fall on the other side.      *)
(***************************************************************************)
EXTENDS Integers, Sequences, FiniteSets, TLC

\* Number of fractional digits a parsed number keeps (inputs carry fewer).
MaxFracDigits == 6
\* Largest same-error repeat count in the behaviours of Spec.
MaxRepeats == 1
\* Largest same-error repeat count in the behaviours of ShakeSpec.
MaxErrorCount == 4
\* Largest number of pending shake-reset callbacks per field in ShakeSpec.
MaxShakeTimers == 2
\* Longest of the enumerated strings the helper functions are applied to in
\* HelperSpec.
MaxInputLen == 4

-----------------------------------------------------------------------------
(* Characters and decimal numbers *)

DigitChars == <<"0", "1", "2", "3", "4", "5", "6", "7", "8", "9">>

IsDigit(c) == \E i \in 1..10 : DigitChars[i] = c

DigitVal(c) == (CHOOSE i \in 1..10 : DigitChars[i] = c) - 1

RECURSIVE Pow10(_)
Pow10(e) == IF e = 0 THEN 1 ELSE 10 * Pow10(e - 1)

\* a * b = q * c + r with 0 <= r < c, formed digit by digit of b so that no
\* intermediate value leaves the 32-bit range (c < 10^8).
RECURSIVE MulDiv(_, _, _)
MulDiv(a, b, c) ==
    IF b = 0 THEN [q |-> 0, r |-> 0]
    ELSE LET h == MulDiv(a, b \div 10, c)
             d == b % 10
             t == 10 * h.r + (a % c) * d
         IN  [q |-> 10 * h.q + (a \div c) * d + (t \div c), r |-> t % c]

NaN == [nan |-> TRUE, n |-> 0, f |-> 0]

Num(n, f) == [nan |-> FALSE, n |-> n, f |-> f]

Leq(x, y) == ~x.nan /\ ~y.nan /\ (x.n < y.n \/ (x.n = y.n /\ x.f <= y.f))

IsPositive(x) == ~x.nan /\ (x.n > 0 \/ x.f > 0)

\* Index of the first character at or after i that is not a digit.
RECURSIVE SkipDigits(_, _)
SkipDigits(s, i) ==
    IF i <= Len(s) /\ IsDigit(s[i]) THEN SkipDigits(s, i + 1) ELSE i

RECURSIVE DigitsToNat(_)
DigitsToNat(s) ==
    IF s = <<>> THEN 0
    ELSE 10 * DigitsToNat(SubSeq(s, 1, Len(s) - 1)) + DigitVal(s[Len(s)])

\* The first MaxFracDigits fractional digits as an integer count of
\* 10^-MaxFracDigits.
KeptDigits(s) == IF Len(s) < MaxFracDigits THEN Len(s) ELSE MaxFracDigits

FracToNat(s) ==
    DigitsToNat(SubSeq(s, 1, KeptDigits(s))) * Pow10(MaxFracDigits - KeptDigits(s))

\* Number.parseFloat: the longest prefix "digits [. digits]"; NaN when that
\* prefix holds no digit.
ParsedNumber(intDigits, fracDigits) ==
    IF intDigits = <<>> /\ fracDigits = <<>> THEN NaN
    ELSE Num(DigitsToNat(intDigits), FracToNat(fracDigits))

\* i is the index that ends the leading digits of s.
ParsedPrefix(s, i) ==
    IF i <= Len(s) /\ s[i] = "."
    THEN ParsedNumber(SubSeq(s, 1, i - 1),
                      SubSeq(s, i + 1, SkipDigits(s, i + 1) - 1))
    ELSE ParsedNumber(SubSeq(s, 1, i - 1), <<>>)

parseFloat(s) == ParsedPrefix(s, SkipDigits(s, 1))

RECURSIVE NatToDigits(_)
NatToDigits(n) ==
    IF n < 10 THEN <<DigitChars[n + 1]>>
    ELSE Append(NatToDigits(n \div 10), DigitChars[(n % 10) + 1])

RECURSIVE PadDigits(_, _)
PadDigits(n, width) ==
    IF width = 0 THEN <<>>
    ELSE Append(PadDigits(n \div 10, width - 1), DigitChars[(n % 10) + 1])

\* Number.prototype.toFixed(precision) of the value units / 10^precision.
toFixed(units, precision) ==
    IF precision = 0 THEN NatToDigits(units.n)
    ELSE NatToDigits(units.n) \o <<".">> \o PadDigits(units.u, precision)

\* Mutant of RoundHalfUp: the quotient is cut off instead of rounded.
RoundDown(md, c) == md.q

\* Round-half-up of a MulDiv quotient, as toFixed rounds.
RoundHalfUp(md, c) == md.q + (IF 2 * md.r >= c THEN 1 ELSE 0)

-----------------------------------------------------------------------------
(* Configuration: src/components/crypto-exchange.tsx 13-34,
   src/utils/input-validation.ts 25-29 *)

CurrencyKey == {"ETH", "USDT"}

\* balance: 2.98 and balance: 10000
CURRENCIES ==
    [ETH  |-> [symbol |-> "ETH",
               balance |-> Num(2, 98 * Pow10(MaxFracDigits - 2)),
               precision |-> 4],
     USDT |-> [symbol |-> "USDT", balance |-> Num(10000, 0),
               precision |-> 2]]

\* RATES.ETH_TO_USDT = 2184.33, held in hundredths; RATES.USDT_TO_ETH is its
\* reciprocal.
ETH_TO_USDT_CENTS == 218433

ERROR_MESSAGES ==
    [NUMBERS_ONLY      |-> "Please enter numbers only",
     INSUFFICIENT_ETH  |-> "Insufficient ETH balance",
     INSUFFICIENT_USDT |-> "Insufficient USDT balance"]

-----------------------------------------------------------------------------
(* Amount converter *)

\* whole + rest / 10^p as whole part n and fractional part u in units of
\* 10^-p.
Carry(whole, rest, p) ==
    [n |-> whole + rest \div Pow10(p), u |-> rest % Pow10(p)]

\* x * RATES.ETH_TO_USDT rounded to p decimals (p >= 2).
TimesEthToUsdt(x, p) ==
    Carry(x.n * (ETH_TO_USDT_CENTS \div 100),
          x.n * (ETH_TO_USDT_CENTS % 100) * Pow10(p - 2)
            + RoundHalfUp(MulDiv(x.f, ETH_TO_USDT_CENTS * Pow10(p - 2),
                                 Pow10(MaxFracDigits)),
                          Pow10(MaxFracDigits)),
          p)

\* (w.q * c + w.r + f) / c rounded to a whole number of 10^-p.
DividedRest(w, f, p, c) ==
    Carry(0,
          w.q + RoundHalfUp([q |-> (w.r + f) \div c, r |-> (w.r + f) % c], c),
          p)

\* x * RATES.USDT_TO_ETH = x * 100 / ETH_TO_USDT_CENTS rounded to p decimals
\* (p + 2 <= MaxFracDigits): x in units of 10^-MaxFracDigits divided by c.
DividedByRate(x, p, c) ==
    DividedRest(MulDiv(x.n, Pow10(MaxFracDigits), c), x.f, p, c)

TimesUsdtToEth(x, p) ==
    DividedByRate(x, p, ETH_TO_USDT_CENTS * Pow10(MaxFracDigits - p - 2))

\* x * 1 rounded to p decimals.
TimesOne(x, p) ==
    Carry(x.n,
          RoundHalfUp(MulDiv(x.f, Pow10(p), Pow10(MaxFracDigits)),
                      Pow10(MaxFracDigits)),
          p)

\* (numAmount * rate).toFixed(precision)
ConvertedNumber(numAmount, fromCurrency, toCurrency, p) ==
    IF numAmount.nan THEN <<>>
    ELSE IF fromCurrency = "ETH" /\ toCurrency = "USDT"
         THEN toFixed(TimesEthToUsdt(numAmount, p), p)
    ELSE IF fromCurrency = "USDT" /\ toCurrency = "ETH"
         THEN toFixed(TimesUsdtToEth(numAmount, p), p)
    ELSE toFixed(TimesOne(numAmount, p), p)

calculateExchangeAmount(amount, fromCurrency, toCurrency) ==
    IF amount = <<>> THEN <<>>
    ELSE ConvertedNumber(parseFloat(amount), fromCurrency, toCurrency,
                         CURRENCIES[toCurrency].precision)

-----------------------------------------------------------------------------
(* Input validator *)

\* i is the index that ends the leading digits of value.
RestIsFraction(value, i) ==
    IF i <= Len(value) /\ value[i] = "."
    THEN SkipDigits(value, i + 1) = Len(value) + 1
    ELSE i = Len(value) + 1

\* Mutant of isNumericInput: the pattern has lost its optional point.
isNumericInputDigitsOnly(value) == SkipDigits(value, 1) = Len(value) + 1

\* /^\d*\.?\d*$/ : digits, an optional point, digits, end of string.
isNumericInput(value) ==
    IF value = <<>> THEN TRUE
    ELSE RestIsFraction(value, SkipDigits(value, 1))

\* Mutant of InBalance: zero counts as within the balance.
InBalanceAllowsZero(numValue, maxBalance) ==
    ~numValue.nan /\ Leq(numValue, maxBalance)

\* !isNaN(numValue) && numValue <= maxBalance && numValue > 0
InBalance(numValue, maxBalance) ==
    ~numValue.nan /\ Leq(numValue, maxBalance) /\ IsPositive(numValue)

isWithinBalance(amount, maxBalance) ==
    IF amount = <<>> THEN TRUE
    ELSE InBalance(parseFloat(amount), maxBalance)

\* Mutant of validateAmount: every balance error names ETH.
validateAmountNamesEth(amount, currency) ==
    IF ~isNumericInput(amount) THEN ERROR_MESSAGES.NUMBERS_ONLY
    ELSE IF amount # <<>> /\ ~isWithinBalance(amount, CURRENCIES[currency].balance)
    THEN ERROR_MESSAGES.INSUFFICIENT_ETH
    ELSE ""

validateAmount(amount, currency) ==
    IF ~isNumericInput(amount) THEN ERROR_MESSAGES.NUMBERS_ONLY
    ELSE IF amount # <<>> /\ ~isWithinBalance(amount, CURRENCIES[currency].balance)
    THEN (IF currency = "ETH" THEN ERROR_MESSAGES.INSUFFICIENT_ETH
                              ELSE ERROR_MESSAGES.INSUFFICIENT_USDT)
    ELSE ""

\* e.target.value.replace(/,/g, '')
StripCommas(value) == SelectSeq(value, LAMBDA c : c # ",")


-----------------------------------------------------------------------------
(* Estimated transaction time *)

\* Dollar values are held in millionths, saturating at SaturatedUsd dollars:
\* from there on calculateTransactionMinutes yields 30 for every random
\* factor, since (10 + 0.05 * 1000) * 0.7 > 30.5.
UsdUnit == Pow10(6)

SaturatedUsd == 1000 * UsdUnit

Micros(x) ==
    IF x.n >= 1000 THEN SaturatedUsd
    ELSE x.n * UsdUnit + x.f \div Pow10(MaxFracDigits - 6)

Saturated(m) == IF m > SaturatedUsd THEN SaturatedUsd ELSE m

\* The dollar value of the number x of the given asset: x times
\* RATES.ETH_TO_USDT unless the asset is USDT.
UsdOfNumber(x, currency) ==
    IF x.nan THEN [nan |-> TRUE, v |-> 0]
    ELSE IF currency = "USDT" THEN [nan |-> FALSE, v |-> Micros(x)]
    ELSE IF x.n >= 1 \/ 2 * x.f >= Pow10(MaxFracDigits)
         THEN [nan |-> FALSE, v |-> SaturatedUsd]
    ELSE [nan |-> FALSE,
          v |-> Saturated(MulDiv(Micros(x), ETH_TO_USDT_CENTS, 100).q)]

\* Number.parseFloat(val || "0") in dollars.
UsdValue(val, currency) ==
    UsdOfNumber(parseFloat(IF val = <<>> THEN <<"0">> ELSE val), currency)

\* Math.max: NaN if either argument is NaN.
MathMax(a, b) ==
    IF a.nan \/ b.nan THEN [nan |-> TRUE, v |-> 0]
    ELSE IF a.v >= b.v THEN a ELSE b

Clamp(k) == IF k < 5 THEN 5 ELSE IF k > 30 THEN 30 ELSE k

\* Values of Math.random() the model draws: 0, one half, and the largest
\* value below 1.  They make randomFactor 0.7, 1.0 and just under 1.3.
RandomValues == {"zero", "half", "almost one"}

\* Math.round((10 + value * 0.05) * randomFactor), value in millionths.
RoundedMinutes(v, random) ==
    CASE random = "zero" ->
            (7500000 + MulDiv(v, 35, 1000).q) \div UsdUnit
      [] random = "half" ->
            (10500000 + MulDiv(v, 50, 1000).q) \div UsdUnit
      [] random = "almost one" ->
            IF MulDiv(v, 65, 1000).r = 0
            THEN (13500000 + MulDiv(v, 65, 1000).q - 1) \div UsdUnit
            ELSE (13500000 + MulDiv(v, 65, 1000).q) \div UsdUnit

\* Math.max(5, Math.min(30, Math.round((baseTime + valueEffect) * randomFactor)))
calculateTransactionMinutes(value, random) ==
    IF value.nan THEN [nan |-> TRUE, v |-> 0]
    ELSE IF value.v >= SaturatedUsd THEN [nan |-> FALSE, v |-> 30]
    ELSE [nan |-> FALSE, v |-> Clamp(RoundedMinutes(value.v, random))]

DefaultSendAmount == <<"1", ".", "0", "0">>

DefaultReceiveAmount == <<"2", "1", "8", "4", ".", "3", "3">>

\* Raw field contents (e.target.value) the user may type or paste.
Inputs ==
    { <<>>,
      <<".">>,
      <<"1", "a">>,
      <<"1", ".", "2", ".", "3">>,
      <<"1">>,
      <<"2", ".", "0", "0">>,
      <<"1", ",", "0", "0", "0">>,
      <<"2", ".", "9", "8", "0", "0", "4">>,
      <<"1", "0", "0", "0", "0">>,
      <<"0">> }

\* The operators above are tabulated once over the arguments the handlers
\* can apply them to, and the handlers below read the tables.
Tabulated(F(_), S) == [x \in S |-> F(x)] @@ << >>

\* Amount strings a field can receive from the user.
TypedAmounts ==
    {StripCommas(v) : v \in {w \in Inputs : isNumericInput(StripCommas(w))}}
        \cup {DefaultSendAmount}

CurrencyPairs == {c \in CurrencyKey \X CurrencyKey : c[1] # c[2]}

\* A typed amount is converted from the asset of its field; a derived
\* amount is converted back from the asset it was derived for.
ConvertArgs ==
    {<<a, c[1], c[2]>> : a \in TypedAmounts, c \in CurrencyPairs}
        \cup {<<calculateExchangeAmount(a, c[1], c[2]), c[2], c[1]>> :
                a \in TypedAmounts, c \in CurrencyPairs}

ConvertTable ==
    Tabulated(LAMBDA k : calculateExchangeAmount(k[1], k[2], k[3]),
              ConvertArgs)

Convert(amount, fromCurrency, toCurrency) ==
    ConvertTable[<<amount, fromCurrency, toCurrency>>]

\* Amount strings a field can hold.
StoredAmounts == {k[1] : k \in ConvertArgs}

ValidatedStrings ==
    {StripCommas(v) : v \in Inputs}
        \cup {k[1] : k \in ConvertArgs}
        \cup {calculateExchangeAmount(k[1], k[2], k[3]) : k \in ConvertArgs}

ValidateTable ==
    Tabulated(LAMBDA k : validateAmount(k[1], k[2]),
              ValidatedStrings \X CurrencyKey)

Validate(amount, currency) == ValidateTable[<<amount, currency>>]

UsdTable ==
    Tabulated(LAMBDA k : UsdValue(k[1], k[2]),
              (StoredAmounts \cup {<<"0">>}) \X CurrencyKey)

\* The values setTransactionMinutes may receive; the assets are those of
\* the render whose handler makes the call.
updateTransactionMinutes(sendVal, receiveVal, sendCur, receiveCur) ==
    {calculateTransactionMinutes(
        MathMax(UsdTable[<<sendVal, sendCur>>],
                UsdTable[<<receiveVal, receiveCur>>]),
        random) : random \in RandomValues}

-----------------------------------------------------------------------------
(* Component state: useState / useRef of CryptoExchange, and the callbacks
   it has scheduled with setTimeout *)

VARIABLES
    sendAmount, receiveAmount,          \* raw amount strings
    sendCurrency, receiveCurrency,      \* CurrencyKey
    sendError, receiveError,            \* error message or ""
    transactionMinutes,                 \* [nan, v]
    isLoading, isSuccess,
    sendErrorCount, receiveErrorCount,
    shakeSendError, shakeReceiveError,
    prevSendErrorRef, prevReceiveErrorRef,
    confirmTimers,                      \* closures of pending confirm callbacks
    sendShakeTimers, receiveShakeTimers,\* numbers of pending shake resets
    formLeaving                         \* the form's exit animation is running

vars == <<sendAmount, receiveAmount, sendCurrency, receiveCurrency,
          sendError, receiveError, transactionMinutes, isLoading, isSuccess,
          sendErrorCount, receiveErrorCount, shakeSendError,
          shakeReceiveError, prevSendErrorRef, prevReceiveErrorRef,
          confirmTimers, sendShakeTimers, receiveShakeTimers, formLeaving>>

amountVars == <<sendAmount, receiveAmount, sendCurrency, receiveCurrency>>

receiveErrorVars == <<receiveError, receiveErrorCount, prevReceiveErrorRef>>

sendErrorVars == <<sendError, sendErrorCount, prevSendErrorRef>>

sendShakeVars == <<shakeSendError, sendShakeTimers>>

receiveShakeVars == <<shakeReceiveError, receiveShakeTimers>>

confirmVars == <<isLoading, isSuccess, confirmTimers>>

\* State after mount: the useState defaults, then the mount effect, which
\* replaces the initial 15 minutes by an estimate for the default amounts.
Init ==
    /\ sendAmount = DefaultSendAmount
    /\ receiveAmount = DefaultReceiveAmount
    /\ sendCurrency = "ETH"
    /\ receiveCurrency = "USDT"
    /\ sendError = ""
    /\ receiveError = ""
    /\ transactionMinutes \in
         updateTransactionMinutes(DefaultSendAmount, DefaultReceiveAmount,
                                  "ETH", "USDT")
    /\ isLoading = FALSE
    /\ isSuccess = FALSE
    /\ sendErrorCount = 0
    /\ receiveErrorCount = 0
    /\ shakeSendError = FALSE
    /\ shakeReceiveError = FALSE
    /\ prevSendErrorRef = ""
    /\ prevReceiveErrorRef = ""
    /\ confirmTimers = <<>>
    /\ sendShakeTimers = 0
    /\ receiveShakeTimers = 0
    /\ formLeaving = FALSE

\* {isSuccess ? <SuccessMessage/> : <motion.div key="exchange" exit=...>}
\* inside <AnimatePresence mode="wait">: the form takes events while it is
\* rendered, which it also is while it leaves.
FormMounted == ~isSuccess \/ formLeaving

\* Mutant of ConfirmDisabled: the button stays enabled while a confirmation
\* is in flight.
ConfirmDisabledIgnoresLoading == sendError # "" \/ receiveError # ""

\* disabled={!!sendError || !!receiveError || isLoading}
ConfirmDisabled == sendError # "" \/ receiveError # "" \/ isLoading

-----------------------------------------------------------------------------
(* The two validation effects, run after the render that follows a handler.
   rendered is the state that render shows: each effect runs only if one of
   its dependencies differs from the previous render, compares against the
   sendError of that render, and the last setSendError wins. *)

\* validateAmount(sendAmount, sendCurrency)
SendEffectError(rendered) ==
    Validate(rendered.sendAmount, rendered.sendCurrency)

\* The effect on [sendAmount, sendCurrency] calls setSendError(error).
SendEffectSets(rendered, error) ==
    /\ \/ rendered.sendAmount # sendAmount
       \/ rendered.sendCurrency # sendCurrency
    /\ rendered.sendAmount # <<>>
    /\ error # rendered.sendError

\* validateAmount(calculateExchangeAmount(receiveAmount, receiveCurrency,
\* sendCurrency), sendCurrency)
ReceiveEffectError(rendered) ==
    Validate(Convert(rendered.receiveAmount, rendered.receiveCurrency,
                     rendered.sendCurrency),
             rendered.sendCurrency)

\* The effect on [receiveAmount, receiveCurrency, sendCurrency] calls
\* setSendError(error).
ReceiveEffectSets(rendered, error) ==
    /\ \/ rendered.receiveAmount # receiveAmount
       \/ rendered.receiveCurrency # receiveCurrency
       \/ rendered.sendCurrency # sendCurrency
    /\ ~(rendered.receiveAmount = DefaultReceiveAmount
            /\ rendered.sendAmount = DefaultSendAmount)
    /\ rendered.receiveAmount # <<>>
    /\ error # rendered.sendError

\* sendError, prevSendErrorRef and sendErrorCount after the two effects, of
\* which the second, on the receive amount, runs last.
EffectsSet(rendered, sendEffectError, receiveEffectError) ==
    IF ReceiveEffectSets(rendered, receiveEffectError)
    THEN /\ sendError' = receiveEffectError
         /\ prevSendErrorRef' = receiveEffectError
         /\ sendErrorCount' = 0
    ELSE IF SendEffectSets(rendered, sendEffectError)
    THEN /\ sendError' = sendEffectError
         /\ prevSendErrorRef' = sendEffectError
         /\ sendErrorCount' = 0
    ELSE /\ sendError' = rendered.sendError
         /\ prevSendErrorRef' = rendered.prevSendErrorRef
         /\ sendErrorCount' = rendered.sendErrorCount

ValidationEffects(rendered) ==
    EffectsSet(rendered, SendEffectError(rendered),
               ReceiveEffectError(rendered))

Rendered(sa, ra, sc, rc, se, ref, cnt) ==
    [sendAmount |-> sa, receiveAmount |-> ra, sendCurrency |-> sc,
     receiveCurrency |-> rc, sendError |-> se, prevSendErrorRef |-> ref,
     sendErrorCount |-> cnt]

-----------------------------------------------------------------------------
(* Event handlers *)

\* if (error && error === prevSendErrorRef.current)
SameError(error, prevRef) == error # "" /\ error = prevRef

\* if (sendErrorCount >= 2): the count is the one of the current render.
ShakeTriggered(count) == count >= 2

\* if (error !== ERROR_MESSAGES.NUMBERS_ONLY)
SendEditAccepted(error) == error # ERROR_MESSAGES.NUMBERS_ONLY

\* The same-error branch of the two change handlers, for the send error:
\* the shake flag and its reset callback.
SendErrorTracking(error) ==
    IF SameError(error, prevSendErrorRef) /\ ShakeTriggered(sendErrorCount)
    THEN /\ shakeSendError' = TRUE
         /\ sendShakeTimers' = sendShakeTimers + 1
    ELSE UNCHANGED sendShakeVars

\* setSendErrorCount(prev => prev + 1) or setSendErrorCount(0)
SendErrorCountAfter(error) ==
    IF SameError(error, prevSendErrorRef) THEN sendErrorCount + 1 ELSE 0

\* handleSendAmountChange from the validation of rawValue on: error is
\* validateAmount(rawValue, sendCurrency), newReceiveAmount is
\* calculateExchangeAmount(rawValue, sendCurrency, receiveCurrency).
SendAmountChanged(rawValue, error, newReceiveAmount) ==
    /\ FormMounted
    /\ SendErrorTracking(error)
    /\ IF SendEditAccepted(error)
       THEN /\ sendAmount' = rawValue
            /\ receiveAmount' = newReceiveAmount
            /\ receiveError' = ""
            /\ prevReceiveErrorRef' = ""
            /\ receiveErrorCount' = 0
            /\ transactionMinutes' \in
                 updateTransactionMinutes(rawValue, newReceiveAmount,
                                          sendCurrency, receiveCurrency)
            /\ ValidationEffects(
                 Rendered(rawValue, newReceiveAmount, sendCurrency,
                          receiveCurrency, error, error,
                          SendErrorCountAfter(error)))
       ELSE /\ sendError' = error
            /\ prevSendErrorRef' = error
            /\ sendErrorCount' = SendErrorCountAfter(error)
            /\ UNCHANGED <<sendAmount, receiveAmount, receiveErrorVars,
                           transactionMinutes>>
    /\ UNCHANGED <<sendCurrency, receiveCurrency, receiveShakeVars,
                   confirmVars>>

SendValueChanged(rawValue) ==
    SendAmountChanged(rawValue, Validate(rawValue, sendCurrency),
                      Convert(rawValue, sendCurrency, receiveCurrency))

handleSendAmountChange(value) == SendValueChanged(StripCommas(value))

\* Mutant of ReceiveFormatRejected: a rejected value also empties the
\* receive amount.
ReceiveFormatRejectedClearsAmount ==
    /\ IF ERROR_MESSAGES.NUMBERS_ONLY = prevReceiveErrorRef
       THEN /\ receiveErrorCount' = receiveErrorCount + 1
            /\ IF ShakeTriggered(receiveErrorCount)
               THEN /\ shakeReceiveError' = TRUE
                    /\ receiveShakeTimers' = receiveShakeTimers + 1
               ELSE UNCHANGED receiveShakeVars
       ELSE /\ receiveErrorCount' = 0
            /\ UNCHANGED receiveShakeVars
    /\ receiveError' = ERROR_MESSAGES.NUMBERS_ONLY
    /\ prevReceiveErrorRef' = ERROR_MESSAGES.NUMBERS_ONLY
    /\ receiveAmount' = <<>>
    /\ UNCHANGED <<sendAmount, sendErrorVars, sendShakeVars,
                   transactionMinutes>>

\* The branch of handleReceiveAmountChange for a value that fails
\* isNumericInput.
ReceiveFormatRejected ==
    /\ IF ERROR_MESSAGES.NUMBERS_ONLY = prevReceiveErrorRef
       THEN /\ receiveErrorCount' = receiveErrorCount + 1
            /\ IF ShakeTriggered(receiveErrorCount)
               THEN /\ shakeReceiveError' = TRUE
                    /\ receiveShakeTimers' = receiveShakeTimers + 1
               ELSE UNCHANGED receiveShakeVars
       ELSE /\ receiveErrorCount' = 0
            /\ UNCHANGED receiveShakeVars
    /\ receiveError' = ERROR_MESSAGES.NUMBERS_ONLY
    /\ prevReceiveErrorRef' = ERROR_MESSAGES.NUMBERS_ONLY
    /\ UNCHANGED <<sendAmount, receiveAmount, sendErrorVars, sendShakeVars,
                   transactionMinutes>>

\* The branch of handleReceiveAmountChange for a non-empty numeric rawValue:
\* calculatedSendAmount is calculateExchangeAmount(rawValue, receiveCurrency,
\* sendCurrency), newSendError is validateAmount(calculatedSendAmount,
\* sendCurrency).
ReceiveAmountChanged(rawValue, calculatedSendAmount, newSendError) ==
    /\ SendErrorTracking(newSendError)
    /\ sendAmount' = calculatedSendAmount
    /\ transactionMinutes' \in
         updateTransactionMinutes(calculatedSendAmount, rawValue,
                                  sendCurrency, receiveCurrency)
    /\ ValidationEffects(
         Rendered(calculatedSendAmount, rawValue, sendCurrency,
                  receiveCurrency, newSendError, newSendError,
                  SendErrorCountAfter(newSendError)))

\* Mutant of ReceiveAmountCleared: clearing the receive field leaves the
\* send amount as it was.
ReceiveAmountClearedKeepsSend ==
    /\ UNCHANGED sendAmount
    /\ UNCHANGED sendShakeVars
    /\ transactionMinutes' \in
         updateTransactionMinutes(<<"0">>, <<"0">>, sendCurrency,
                                  receiveCurrency)
    /\ ValidationEffects(
         Rendered(sendAmount, <<>>, sendCurrency, receiveCurrency, "", "", 0))

\* The branch of handleReceiveAmountChange for the empty rawValue.
ReceiveAmountCleared ==
    /\ sendAmount' = <<>>
    /\ UNCHANGED sendShakeVars
    /\ transactionMinutes' \in
         updateTransactionMinutes(<<"0">>, <<"0">>, sendCurrency,
                                  receiveCurrency)
    /\ ValidationEffects(
         Rendered(<<>>, <<>>, sendCurrency, receiveCurrency, "", "", 0))

ReceiveConverted(rawValue, calculatedSendAmount) ==
    ReceiveAmountChanged(rawValue, calculatedSendAmount,
                         Validate(calculatedSendAmount, sendCurrency))

ReceiveValueChanged(rawValue) ==
    /\ FormMounted
    /\ IF ~isNumericInput(rawValue)
       THEN ReceiveFormatRejected
       ELSE /\ receiveAmount' = rawValue
            /\ receiveError' = ""
            /\ prevReceiveErrorRef' = ""
            /\ receiveErrorCount' = 0
            /\ UNCHANGED receiveShakeVars
            /\ IF rawValue # <<>>
               THEN ReceiveConverted(rawValue,
                        Convert(rawValue, receiveCurrency, sendCurrency))
               ELSE ReceiveAmountCleared
    /\ UNCHANGED <<sendCurrency, receiveCurrency, confirmVars>>

handleReceiveAmountChange(value) == ReceiveValueChanged(StripCommas(value))

\* Mutant of SwapBlocked: only a format error of the send field blocks.
SwapBlockedBySendOnly == sendError = ERROR_MESSAGES.NUMBERS_ONLY

\* if (sendError === NUMBERS_ONLY || receiveError === NUMBERS_ONLY) return
SwapBlocked ==
    \/ sendError = ERROR_MESSAGES.NUMBERS_ONLY
    \/ receiveError = ERROR_MESSAGES.NUMBERS_ONLY

\* Mutant of handleSwap: the amounts change fields and the assets stay.
handleSwapKeepsAssets ==
    /\ FormMounted
    /\ IF SwapBlocked
       THEN UNCHANGED vars
       ELSE /\ sendAmount' = receiveAmount
            /\ receiveAmount' = sendAmount
            /\ receiveError' = ""
            /\ transactionMinutes' \in
                 updateTransactionMinutes(receiveAmount, sendAmount,
                                          sendCurrency, receiveCurrency)
            /\ ValidationEffects(
                 Rendered(receiveAmount, sendAmount, sendCurrency,
                          receiveCurrency,
                          Validate(receiveAmount, sendCurrency),
                          prevSendErrorRef, sendErrorCount))
            /\ UNCHANGED <<sendCurrency, receiveCurrency, receiveErrorCount,
                           prevReceiveErrorRef, sendShakeVars,
                           receiveShakeVars, confirmVars>>

\* Mutant of handleSwap: the old send amount is dropped.
handleSwapClearsReceive ==
    /\ FormMounted
    /\ IF SwapBlocked
       THEN UNCHANGED vars
       ELSE /\ sendAmount' = receiveAmount
            /\ receiveAmount' = <<>>
            /\ sendCurrency' = receiveCurrency
            /\ receiveCurrency' = sendCurrency
            /\ receiveError' = ""
            /\ transactionMinutes' \in
                 updateTransactionMinutes(receiveAmount, sendAmount,
                                          sendCurrency, receiveCurrency)
            /\ ValidationEffects(
                 Rendered(receiveAmount, <<>>, receiveCurrency,
                          sendCurrency,
                          Validate(receiveAmount, receiveCurrency),
                          prevSendErrorRef, sendErrorCount))
            /\ UNCHANGED <<receiveErrorCount, prevReceiveErrorRef,
                           sendShakeVars, receiveShakeVars, confirmVars>>

\* Mutant of handleSwap: the receive asset is not replaced by the send asset.
handleSwapCopiesAsset ==
    /\ FormMounted
    /\ IF SwapBlocked
       THEN UNCHANGED vars
       ELSE /\ sendAmount' = receiveAmount
            /\ receiveAmount' = sendAmount
            /\ sendCurrency' = receiveCurrency
            /\ receiveError' = ""
            /\ sendError' = Validate(receiveAmount, receiveCurrency)
            /\ transactionMinutes' \in
                 updateTransactionMinutes(receiveAmount, sendAmount,
                                          sendCurrency, receiveCurrency)
            /\ UNCHANGED <<receiveCurrency, sendErrorCount, prevSendErrorRef,
                           receiveErrorCount, prevReceiveErrorRef,
                           sendShakeVars, receiveShakeVars, confirmVars>>

\* updateTransactionMinutes runs in the closure of the render that created
\* handleSwap, whose sendCurrency and receiveCurrency are the assets before
\* the swap.
handleSwap ==
    /\ FormMounted
    /\ IF SwapBlocked
       THEN UNCHANGED vars
       ELSE /\ sendAmount' = receiveAmount
            /\ receiveAmount' = sendAmount
            /\ sendCurrency' = receiveCurrency
            /\ receiveCurrency' = sendCurrency
            /\ receiveError' = ""
            /\ transactionMinutes' \in
                 updateTransactionMinutes(receiveAmount, sendAmount,
                                          sendCurrency, receiveCurrency)
            /\ ValidationEffects(
                 Rendered(receiveAmount, sendAmount, receiveCurrency,
                          sendCurrency,
                          Validate(receiveAmount, receiveCurrency),
                          prevSendErrorRef, sendErrorCount))
            /\ UNCHANGED <<receiveErrorCount, prevReceiveErrorRef,
                           sendShakeVars, receiveShakeVars, confirmVars>>

\* What the scheduled callback has captured from the render of handleConfirm.
ConfirmClosure ==
    [sendAmount |-> sendAmount, sendCurrency |-> sendCurrency,
     receiveAmount |-> receiveAmount, receiveCurrency |-> receiveCurrency]

\* Mutant of handleConfirm: the button stays clickable while a confirmation
\* is in flight.
handleConfirmWhileLoading ==
    /\ ~isSuccess
    /\ sendError = ""
    /\ receiveError = ""
    /\ isLoading' = TRUE
    /\ confirmTimers' = Append(confirmTimers, ConfirmClosure)
    /\ UNCHANGED <<amountVars, sendErrorVars, receiveErrorVars,
                   transactionMinutes, isSuccess, sendShakeVars,
                   receiveShakeVars>>

\* The Confirm button's onClick; a disabled button dispatches no click.
handleConfirm ==
    /\ ~isSuccess
    /\ ~ConfirmDisabled
    /\ isLoading' = TRUE
    /\ confirmTimers' = Append(confirmTimers, ConfirmClosure)
    /\ UNCHANGED <<amountVars, sendErrorVars, receiveErrorVars,
                   transactionMinutes, isSuccess, sendShakeVars,
                   receiveShakeVars>>

\* Mutant of ConfirmTimeout: the callback ends loading without reaching
\* success.
ConfirmTimeoutSkipsSuccess ==
    /\ confirmTimers # <<>>
    /\ confirmTimers' = Tail(confirmTimers)
    /\ isLoading' = FALSE
    /\ UNCHANGED <<amountVars, sendErrorVars, receiveErrorVars,
                   transactionMinutes, isSuccess, sendShakeVars,
                   receiveShakeVars>>

\* The callback of handleConfirm's setTimeout, 2000 ms later.
ConfirmTimeout ==
    /\ confirmTimers # <<>>
    /\ confirmTimers' = Tail(confirmTimers)
    /\ isLoading' = FALSE
    /\ isSuccess' = TRUE
    /\ UNCHANGED <<amountVars, sendErrorVars, receiveErrorVars,
                   transactionMinutes, sendShakeVars, receiveShakeVars>>

\* The reset with newReceiveAmount = calculateExchangeAmount("1.00",
\* sendCurrency, receiveCurrency).
ResetAmounts(newReceiveAmount) ==
    /\ isSuccess
    /\ isSuccess' = FALSE
    /\ sendAmount' = DefaultSendAmount
    /\ receiveAmount' = newReceiveAmount
    /\ ValidationEffects(
         Rendered(DefaultSendAmount, newReceiveAmount, sendCurrency,
                  receiveCurrency, sendError, prevSendErrorRef,
                  sendErrorCount))
    /\ UNCHANGED <<sendCurrency, receiveCurrency, receiveErrorVars,
                   transactionMinutes, isLoading, confirmTimers,
                   sendShakeVars, receiveShakeVars>>

\* Mutant of NewExchange: the amounts are reset but the success view stays.
NewExchangeStaysConfirmed ==
    /\ isSuccess
    /\ sendAmount' = DefaultSendAmount
    /\ receiveAmount' = Convert(DefaultSendAmount, sendCurrency,
                                receiveCurrency)
    /\ UNCHANGED <<sendCurrency, receiveCurrency, sendError, receiveError,
                   sendErrorVars, receiveErrorVars, transactionMinutes,
                   confirmVars, sendShakeVars, receiveShakeVars>>

\* onClick of the "New Exchange" button of SuccessMessage.
NewExchange ==
    ResetAmounts(Convert(DefaultSendAmount, sendCurrency, receiveCurrency))

\* Mutant of ShakeSendTimeout: the callback leaves the shake flag set.
ShakeSendTimeoutKeepsFlag ==
    /\ sendShakeTimers > 0
    /\ sendShakeTimers' = sendShakeTimers - 1
    /\ UNCHANGED <<amountVars, sendErrorVars, receiveErrorVars,
                   transactionMinutes, confirmVars, receiveShakeVars,
                   shakeSendError>>

\* setTimeout(() => setShakeSendError(false), 500)
ShakeSendTimeout ==
    /\ sendShakeTimers > 0
    /\ sendShakeTimers' = sendShakeTimers - 1
    /\ shakeSendError' = FALSE
    /\ UNCHANGED <<amountVars, sendErrorVars, receiveErrorVars,
                   transactionMinutes, confirmVars, receiveShakeVars>>

\* setTimeout(() => setShakeReceiveError(false), 500)
ShakeReceiveTimeout ==
    /\ receiveShakeTimers > 0
    /\ receiveShakeTimers' = receiveShakeTimers - 1
    /\ shakeReceiveError' = FALSE
    /\ UNCHANGED <<amountVars, sendErrorVars, receiveErrorVars,
                   transactionMinutes, confirmVars, sendShakeVars>>

SendEdit == \E value \in Inputs : handleSendAmountChange(value)

ReceiveEdit == \E value \in Inputs : handleReceiveAmountChange(value)

-----------------------------------------------------------------------------
(* Specifications *)

\* The user repeats an edit that yields the same error at most MaxRepeats
\* times in a row, and no edit starts the shake animation.
FewRepeats ==
    /\ sendErrorCount <= MaxRepeats
    /\ receiveErrorCount <= MaxRepeats
    /\ sendShakeTimers = 0
    /\ receiveShakeTimers = 0

\* The form without the shake animation: no shake reset is ever pending.
Next ==
    \/ SendEdit /\ FewRepeats' /\ UNCHANGED formLeaving
    \/ ReceiveEdit /\ FewRepeats' /\ UNCHANGED formLeaving
    \/ handleSwap /\ UNCHANGED formLeaving
    \/ handleConfirm /\ UNCHANGED formLeaving
    \/ ConfirmTimeout /\ UNCHANGED formLeaving
    \/ NewExchange /\ UNCHANGED formLeaving

Spec == Init /\ [][Next]_vars

\* A scheduled timeout callback runs once its delay has passed.
FairSpec == Spec /\ WF_vars(ConfirmTimeout /\ UNCHANGED formLeaving)

\* The edits of the recovery analysis: one that fails the format check, one
\* that exceeds the ETH balance, the empty edit and the edit with 1.
RecoverInputs == {<<"1", "a">>, <<"1", "0", "0", "0", "0">>, <<>>, <<"1">>}

RecoverNext ==
    \/ /\ \E value \in RecoverInputs : handleSendAmountChange(value)
       /\ FewRepeats'
       /\ UNCHANGED formLeaving
    \/ /\ \E value \in RecoverInputs : handleReceiveAmountChange(value)
       /\ FewRepeats'
       /\ UNCHANGED formLeaving
    \/ handleSwap /\ UNCHANGED formLeaving
    \/ handleConfirm /\ UNCHANGED formLeaving
    \/ ConfirmTimeout /\ UNCHANGED formLeaving
    \/ NewExchange /\ UNCHANGED formLeaving

\* The behaviours in which the confirm timeout runs and the user keeps
\* trying to recover: presses "New Exchange" when it is shown and types 1
\* into the send field when that changes anything.  Every finite behaviour
\* of the form extends to one of these, so what is eventually true of all
\* of them is reachable from every reachable state.
RecoverSpec ==
    /\ Init
    /\ [][RecoverNext]_vars
    /\ WF_vars(ConfirmTimeout /\ UNCHANGED formLeaving)
    /\ WF_vars(NewExchange /\ UNCHANGED formLeaving)
    /\ WF_vars(handleSendAmountChange(<<"1">>) /\ UNCHANGED formLeaving)

\* The exit animation of the form (exit={{ opacity: 0 }}, duration 0.3) ends.
ExitComplete ==
    /\ formLeaving
    /\ formLeaving' = FALSE
    /\ UNCHANGED <<amountVars, sendErrorVars, receiveErrorVars,
                   transactionMinutes, confirmVars, sendShakeVars,
                   receiveShakeVars>>

\* The form with its exit animation: when the timeout callback sets
\* isSuccess the form starts to leave and stays rendered, as the render
\* before that update built it, until the animation ends; only then is
\* SuccessMessage shown (mode="wait").  The handlers of that render close
\* over the state the callback found, so the first event the leaving form
\* takes acts as the handler does on the current state; the animation is
\* taken to end before a second event.  The Confirm button of that render
\* is disabled, as isLoading was true.
ExitNext ==
    \/ /\ \E value \in RecoverInputs : handleSendAmountChange(value)
       /\ FewRepeats'
       /\ formLeaving' = FALSE
    \/ /\ \E value \in RecoverInputs : handleReceiveAmountChange(value)
       /\ FewRepeats'
       /\ formLeaving' = FALSE
    \/ handleSwap /\ formLeaving' = FALSE
    \/ handleConfirm /\ UNCHANGED formLeaving
    \/ ConfirmTimeout /\ formLeaving' = TRUE
    \/ ExitComplete
    \/ NewExchange /\ ~formLeaving /\ UNCHANGED formLeaving

ExitSpec == Init /\ [][ExitNext]_vars

\* Field contents that repeat an error: a format error for either field, an
\* amount above the ETH balance, and an amount that clears the error.
ShakeInputs ==
    { <<"1", "a">>, <<"1", "0", "0", "0", "0">>, <<"1">> }

ShakeBounded ==
    /\ sendErrorCount <= MaxErrorCount
    /\ receiveErrorCount <= MaxErrorCount
    /\ sendShakeTimers <= MaxShakeTimers
    /\ receiveShakeTimers <= MaxShakeTimers

\* The two fields with the shake animation and its reset callbacks.
ShakeNext ==
    \/ (\E value \in ShakeInputs : handleSendAmountChange(value))
         /\ ShakeBounded' /\ UNCHANGED formLeaving
    \/ (\E value \in ShakeInputs : handleReceiveAmountChange(value))
         /\ ShakeBounded' /\ UNCHANGED formLeaving
    \/ ShakeSendTimeout /\ UNCHANGED formLeaving
    \/ ShakeReceiveTimeout /\ UNCHANGED formLeaving

ShakeSpec == Init /\ [][ShakeNext]_vars

\* Each scheduled shake reset runs once its 500 ms have passed.
FairShakeSpec ==
    /\ ShakeSpec
    /\ WF_vars(ShakeSendTimeout /\ UNCHANGED formLeaving)
    /\ WF_vars(ShakeReceiveTimeout /\ UNCHANGED formLeaving)

-----------------------------------------------------------------------------
(* The helper functions on their own: comma stripping, validateAmount and
   calculateExchangeAmount applied to arbitrary field contents.  sendAmount
   holds the string the functions are applied to, sendCurrency and
   receiveCurrency the asset pair, sendError the result of validateAmount and
   receiveAmount the result of calculateExchangeAmount. *)

\* Characters of the enumerated strings: digits, the point, the grouping
\* comma and a letter.
InputChars == {"0", "1", "9", ".", ",", "a"}

RECURSIVE StringsOfLen(_)
StringsOfLen(n) ==
    IF n = 0 THEN {<<>>}
    ELSE {Append(s, c) : s \in StringsOfLen(n - 1), c \in InputChars}

\* Amounts at the two balances, 2.98 and 10000, and the examples 2.00 and
\* 1000 with and without grouping.
BoundaryInputs ==
    { <<"2", ".", "9", "8">>,
      <<"2", ".", "9", "8", "0", "1">>,
      <<"2", ".", "9", "9">>,
      <<"1", "0", "0", "0", "0">>,
      <<"1", "0", "0", "0", "0", ".", "0", "1">>,
      <<"1", "0", "0", "0", "1">>,
      <<"1", "0", ",", "0", "0", "0">>,
      <<"2", ".", "0", "0">>,
      <<"1", ".", "2", ".", "3">> }

HelperInputs ==
    UNION {StringsOfLen(n) : n \in 0..MaxInputLen} \cup BoundaryInputs

HelperInit ==
    /\ sendAmount \in HelperInputs
    /\ receiveAmount = <<>>
    /\ sendCurrency \in CurrencyKey
    /\ receiveCurrency \in CurrencyKey \ {sendCurrency}
    /\ sendError = ""
    /\ receiveError = ""
    /\ transactionMinutes = [nan |-> FALSE, v |-> 15]
    /\ isLoading = FALSE
    /\ isSuccess = FALSE
    /\ sendErrorCount = 0
    /\ receiveErrorCount = 0
    /\ shakeSendError = FALSE
    /\ shakeReceiveError = FALSE
    /\ prevSendErrorRef = ""
    /\ prevReceiveErrorRef = ""
    /\ confirmTimers = <<>>
    /\ sendShakeTimers = 0
    /\ receiveShakeTimers = 0
    /\ formLeaving = FALSE

\* What the helper calls leave alone.
helperFrame ==
    <<sendCurrency, receiveCurrency, receiveError, transactionMinutes,
      confirmVars, sendErrorCount, receiveErrorCount, prevSendErrorRef,
      prevReceiveErrorRef, sendShakeVars, receiveShakeVars>>

\* const rawValue = e.target.value.replace(/,/g, '')
StripCall ==
    /\ sendAmount' = StripCommas(sendAmount)
    /\ UNCHANGED <<receiveAmount, sendError, helperFrame>>

\* validateAmount(amount, currency)
ValidateCall ==
    /\ sendError' = validateAmount(sendAmount, sendCurrency)
    /\ UNCHANGED <<sendAmount, receiveAmount, helperFrame>>

\* calculateExchangeAmount(amount, fromCurrency, toCurrency)
ConvertCall ==
    /\ receiveAmount' =
         calculateExchangeAmount(sendAmount, sendCurrency, receiveCurrency)
    /\ UNCHANGED <<sendAmount, sendError, helperFrame>>

HelperNext ==
    \/ StripCall /\ UNCHANGED formLeaving
    \/ ValidateCall /\ UNCHANGED formLeaving
    \/ ConvertCall /\ UNCHANGED formLeaving

HelperSpec == HelperInit /\ [][HelperNext]_vars

-----------------------------------------------------------------------------
(* The second definition of CryptoExchange in crypto-exchange.tsx (lines
   646-840).  It keeps the two amounts, the two assets and the two errors;
   it has no loading or success state, no estimated time and no shake.  Its
   asset names are "Ethereum" and "USDT": the model holds the keys ETH and
   USDT. *)

\* const usdtToEthRate = 0.00046, held in units of 10^-5.
usdtToEthRate_E5 == 46

\* const maxEthBalance = 2.98
maxEthBalance == CURRENCIES.ETH.balance

NaNString == <<"N", "a", "N">>

\* (ethAmount * ethPrice).toFixed(4); ethPrice is 2184.33.
TimesEthPrice(ethAmount) ==
    IF ethAmount.nan THEN NaNString
    ELSE toFixed(TimesEthToUsdt(ethAmount, 4), 4)

\* (tenths + rest / 10^(MaxFracDigits + 1)) / 10 in units of 10^-4.
RateUnits(tenths, rest) ==
    tenths \div 10
      + RoundHalfUp(
          [q |-> ((tenths % 10) * Pow10(MaxFracDigits) + rest)
                    \div Pow10(MaxFracDigits + 1),
           r |-> ((tenths % 10) * Pow10(MaxFracDigits) + rest)
                    % Pow10(MaxFracDigits + 1)],
          Pow10(MaxFracDigits + 1))

\* (usdtAmount * usdtToEthRate).toFixed(4)
TimesUsdtToEthRate(usdtAmount) ==
    IF usdtAmount.nan THEN NaNString
    ELSE toFixed(Carry(0,
                       RateUnits(usdtAmount.n * usdtToEthRate_E5,
                                 usdtAmount.f * usdtToEthRate_E5),
                       4),
                 4)

Init2 ==
    /\ sendAmount = DefaultSendAmount
    /\ receiveAmount = DefaultReceiveAmount
    /\ sendCurrency = "ETH"
    /\ receiveCurrency = "USDT"
    /\ sendError = ""
    /\ receiveError = ""
    /\ transactionMinutes = [nan |-> FALSE, v |-> 15]
    /\ isLoading = FALSE
    /\ isSuccess = FALSE
    /\ sendErrorCount = 0
    /\ receiveErrorCount = 0
    /\ shakeSendError = FALSE
    /\ shakeReceiveError = FALSE
    /\ prevSendErrorRef = ""
    /\ prevReceiveErrorRef = ""
    /\ confirmTimers = <<>>
    /\ sendShakeTimers = 0
    /\ receiveShakeTimers = 0
    /\ formLeaving = FALSE

\* State the second definition does not have.
absentVars ==
    <<transactionMinutes, isLoading, isSuccess, sendErrorCount,
      receiveErrorCount, shakeSendError, shakeReceiveError, prevSendErrorRef,
      prevReceiveErrorRef, confirmTimers, sendShakeTimers,
      receiveShakeTimers>>

handleSendAmountChange2(value) ==
    /\ IF ~isNumericInput(value)
       THEN /\ sendError' = ERROR_MESSAGES.NUMBERS_ONLY
            /\ UNCHANGED <<sendAmount, receiveAmount>>
       ELSE IF value # <<>> /\ ~isWithinBalance(value, maxEthBalance)
       THEN /\ sendError' = ERROR_MESSAGES.INSUFFICIENT_ETH
            /\ UNCHANGED <<sendAmount, receiveAmount>>
       ELSE /\ sendError' = ""
            /\ sendAmount' = value
            /\ receiveAmount' =
                 IF value # <<>> THEN TimesEthPrice(parseFloat(value))
                 ELSE <<>>
    /\ UNCHANGED <<sendCurrency, receiveCurrency, receiveError, absentVars>>

\* The branch of the second handleReceiveAmountChange for a non-empty value.
ReceiveAmountChanged2(calculatedSendAmount) ==
    /\ sendError' =
         IF ~isWithinBalance(calculatedSendAmount, maxEthBalance)
         THEN ERROR_MESSAGES.INSUFFICIENT_ETH
         ELSE ""
    /\ sendAmount' = calculatedSendAmount

handleReceiveAmountChange2(value) ==
    /\ IF ~isNumericInput(value)
       THEN /\ receiveError' = ERROR_MESSAGES.NUMBERS_ONLY
            /\ UNCHANGED <<sendAmount, receiveAmount, sendError>>
       ELSE /\ receiveError' = ""
            /\ receiveAmount' = value
            /\ IF value # <<>>
               THEN ReceiveAmountChanged2(
                        TimesUsdtToEthRate(parseFloat(value)))
               ELSE /\ sendAmount' = <<>>
                    /\ sendError' = ""
    /\ UNCHANGED <<sendCurrency, receiveCurrency, absentVars>>

\* if (sendError || receiveError) return
handleSwap2 ==
    IF sendError # "" \/ receiveError # ""
    THEN UNCHANGED vars
    ELSE /\ sendAmount' = receiveAmount
         /\ receiveAmount' = sendAmount
         /\ sendCurrency' = receiveCurrency
         /\ receiveCurrency' = sendCurrency
         /\ UNCHANGED <<sendError, receiveError, absentVars>>

\* disabled={!!sendError || !!receiveError}
ConfirmDisabled2 == sendError # "" \/ receiveError # ""

\* The second handleConfirm writes to the console and sets no state.
handleConfirm2 ==
    /\ ~ConfirmDisabled2
    /\ UNCHANGED vars

SendEdit2 == \E value \in Inputs : handleSendAmountChange2(value)

ReceiveEdit2 == \E value \in Inputs : handleReceiveAmountChange2(value)

Next2 ==
    \/ SendEdit2 /\ UNCHANGED formLeaving
    \/ ReceiveEdit2 /\ UNCHANGED formLeaving
    \/ handleSwap2 /\ UNCHANGED formLeaving
    \/ handleConfirm2 /\ UNCHANGED formLeaving

Spec2 == Init2 /\ [][Next2]_vars

-----------------------------------------------------------------------------
(* Properties *)

\* The value, with grouping commas stripped, passes the format check.
FormatValid(value) == isNumericInput(StripCommas(value))

\* The inputs that pass the format check once stripped, and those that fail.
ValidInputs == {value \in Inputs : FormatValid(value)}

RejectedInputs == Inputs \ ValidInputs

InsufficientError(currency) ==
    IF currency = "ETH" THEN ERROR_MESSAGES.INSUFFICIENT_ETH
    ELSE ERROR_MESSAGES.INSUFFICIENT_USDT

\* The amount is a number greater than the balance of the asset.
ExceedsBalance(amount, currency) ==
    /\ ~parseFloat(amount).nan
    /\ ~Leq(parseFloat(amount), CURRENCIES[currency].balance)

\* The amount is a number v with 0 < v <= the balance of the asset.
WithinBalance(amount, currency) ==
    InBalance(parseFloat(amount), CURRENCIES[currency].balance)

\* The two amount strings are equal or parse alike: to numbers of equal
\* value, or neither to a number.
AmountsAgree(a, b) == a = b \/ parseFloat(a) = parseFloat(b)

\* A step that is a send-field edit or a receive-field edit with a
\* format-valid value, or a swap that is not blocked.
EditOrSwapDone ==
    \/ \E value \in ValidInputs :
          \/ handleSendAmountChange(value)
          \/ handleReceiveAmountChange(value)
    \/ ~SwapBlocked /\ handleSwap

\* C1: after a completed send edit, receive edit or swap with a format-valid
\* value, a stored send amount greater than the balance of the send asset
\* carries that asset's insufficient-balance error and confirm is disabled.
C1_OverBalanceIsFlagged ==
    [][EditOrSwapDone =>
          (ExceedsBalance(sendAmount', sendCurrency') =>
              /\ sendError' = InsufficientError(sendCurrency')
              /\ ConfirmDisabled')]_vars

\* C2: after a completed send edit with a format-valid amount v, the send
\* error is empty if 0 < v <= balance of the send asset, and a balance error
\* is shown only if the stored send amount violates 0 < v <= balance.
C2_BalanceErrorIffOutOfBalance ==
    [][\A value \in ValidInputs :
          handleSendAmountChange(value) =>
              /\ WithinBalance(StripCommas(value), sendCurrency) =>
                    sendError' = ""
              /\ sendError' = InsufficientError(sendCurrency') =>
                    ~WithinBalance(sendAmount', sendCurrency')]_vars

\* C3 as stated: in every reachable state the receive amount is the send
\* amount converted to the receive asset, or both amounts are empty.
C3_ReceiveIsConvertedSend ==
    \/ sendAmount = <<>> /\ receiveAmount = <<>>
    \/ AmountsAgree(receiveAmount,
                    calculateExchangeAmount(sendAmount, sendCurrency,
                                            receiveCurrency))

\* C3 amended: in every reachable state the receive amount is the send
\* amount converted to the receive asset, or the send amount is the receive
\* amount converted to the send asset (the field edited last keeps the
\* typed amount and the other field is derived from it).
C3_OneAmountIsConvertedOther ==
    \/ C3_ReceiveIsConvertedSend
    \/ AmountsAgree(sendAmount,
                    calculateExchangeAmount(receiveAmount, receiveCurrency,
                                            sendCurrency))

\* C3 witness: after the receive edit 1000 the send amount 0.4578 is derived
\* from the receive amount, and converts back to 999.99.
C3_ReceiveEditedLast ==
    /\ receiveAmount = <<"1", "0", "0", "0">>
    /\ sendAmount = <<"0", ".", "4", "5", "7", "8">>
    /\ sendCurrency = "ETH"
    /\ ~C3_ReceiveIsConvertedSend

\* C4: the confirmed state shows the amounts and assets the confirm control
\* was activated with, which the scheduled callback has captured.
C4_SuccessShowsConfirmedValues ==
    [][(isLoading /\ isSuccess') => ConfirmClosure' = Head(confirmTimers)]_vars

\* C5: the confirm action takes place only in a state with an empty send
\* error, an empty receive error and no confirmation in flight; in every
\* other state no confirm step is possible.
C5_ConfirmOnlyWhenValidAndIdle ==
    [][/\ handleConfirm =>
             (sendError = "" /\ receiveError = "" /\ ~isLoading)
       /\ (sendError # "" \/ receiveError # "" \/ isLoading) =>
             ~ENABLED handleConfirm]_vars

\* C5 witness: a confirmation is in flight, activated without errors.
C5_ConfirmInFlight ==
    /\ isLoading
    /\ Len(confirmTimers) = 1
    /\ sendError = ""
    /\ receiveError = ""

\* C6: the reset of the confirmed state restores send 1.00 ETH, receive
\* 2184.33 USDT and no errors.
C6_ResetRestoresDefaults ==
    [][NewExchange =>
          /\ sendAmount' = DefaultSendAmount
          /\ sendCurrency' = "ETH"
          /\ receiveAmount' = DefaultReceiveAmount
          /\ receiveCurrency' = "USDT"
          /\ sendError' = ""
          /\ receiveError' = ""]_vars

\* C7: a confirm activation enters the loading state, loading ends only in
\* the confirmed state, and with the scheduled callback run fairly loading
\* leads to the confirmed state with loading cleared.
C7_ConfirmLeadsToSuccess ==
    /\ [][/\ handleConfirm => isLoading'
          /\ (isLoading /\ ~isLoading') => isSuccess']_vars
    /\ isLoading ~> (isSuccess /\ ~isLoading)

\* C7 witness: the confirmed state, reached with no callback left pending.
C7_Confirmed ==
    /\ isSuccess
    /\ ~isLoading
    /\ confirmTimers = <<>>

\* C8, of the second definition: a send edit with a format-valid value
\* stores the value without commas, sets the receive amount to the converted
\* value and clears the receive error, whether or not the balance check
\* passes.
C8_ValidSendEditAccepted2 ==
    [][\A value \in ValidInputs :
          handleSendAmountChange2(value) =>
              /\ sendAmount' = StripCommas(value)
              /\ receiveAmount' =
                   calculateExchangeAmount(StripCommas(value), sendCurrency,
                                           receiveCurrency)
              /\ receiveError' = ""]_vars

\* C8, of the first definition.
C8_ValidSendEditAccepted1 ==
    [][\A value \in ValidInputs :
          handleSendAmountChange(value) =>
              /\ sendAmount' = StripCommas(value)
              /\ receiveAmount' =
                   calculateExchangeAmount(StripCommas(value), sendCurrency,
                                           receiveCurrency)
              /\ receiveError' = ""]_vars

\* C9, of the second definition: a receive edit with a format-valid
\* non-empty value stores the value, derives the send amount with the
\* inverse rate, sets the send error to the validation of the derived
\* amount and leaves the receive error empty.
C9_ValidReceiveEditDerivesSend2 ==
    [][\A value \in ValidInputs \ {<<>>} :
          handleReceiveAmountChange2(value) =>
              /\ receiveAmount' = StripCommas(value)
              /\ sendAmount' =
                   calculateExchangeAmount(StripCommas(value),
                                           receiveCurrency, sendCurrency)
              /\ sendError' = validateAmount(sendAmount', sendCurrency)
              /\ receiveError' = ""]_vars

\* C9, of the first definition.
C9_ValidReceiveEditDerivesSend1 ==
    [][\A value \in ValidInputs \ {<<>>} :
          handleReceiveAmountChange(value) =>
              /\ receiveAmount' = StripCommas(value)
              /\ sendAmount' =
                   calculateExchangeAmount(StripCommas(value),
                                           receiveCurrency, sendCurrency)
              /\ sendError' = validateAmount(sendAmount', sendCurrency)
              /\ receiveError' = ""]_vars

\* C10: an edit whose value fails the format check sets the error of its
\* field to "numbers only" and leaves both amounts, both assets, the error
\* of the other field and the estimated time unchanged.
C10_RejectedEditKeepsRest ==
    [][\A value \in RejectedInputs :
          /\ handleSendAmountChange(value) =>
                /\ sendError' = ERROR_MESSAGES.NUMBERS_ONLY
                /\ UNCHANGED <<amountVars, receiveError, transactionMinutes>>
          /\ handleReceiveAmountChange(value) =>
                /\ receiveError' = ERROR_MESSAGES.NUMBERS_ONLY
                /\ UNCHANGED <<amountVars, sendError, transactionMinutes>>]_vars

\* C10 witness: both fields hold the "numbers only" error over amounts that
\* are not the defaults.
C10_BothEditsRejected ==
    /\ sendError = ERROR_MESSAGES.NUMBERS_ONLY
    /\ receiveError = ERROR_MESSAGES.NUMBERS_ONLY
    /\ sendAmount = <<"2", ".", "0", "0">>
    /\ receiveAmount = <<"4", "3", "6", "8", ".", "6", "6">>

\* Either field holds the "numbers only" error.
FormatErrorPending ==
    \/ sendError = ERROR_MESSAGES.NUMBERS_ONLY
    \/ receiveError = ERROR_MESSAGES.NUMBERS_ONLY

\* C11: an edit of either field with the empty string leaves both amounts
\* empty and both errors empty once the handler and the effects have run.
C11_EmptyEditClearsBoth ==
    [][(handleSendAmountChange(<<>>) \/ handleReceiveAmountChange(<<>>)) =>
          /\ sendAmount' = <<>>
          /\ receiveAmount' = <<>>
          /\ sendError' = ""
          /\ receiveError' = ""]_vars

\* C11 witness: both fields emptied, with the assets swapped, while a
\* confirmation is in flight.
C11_BothEmptied ==
    /\ sendAmount = <<>>
    /\ receiveAmount = <<>>
    /\ sendError = ""
    /\ receiveError = ""
    /\ sendCurrency = "USDT"
    /\ isLoading

\* C12: a swap attempted while either error is the "numbers only" error
\* changes neither the amounts, the assets, the errors nor the estimated
\* time.
C12_BlockedSwapIsNoOp ==
    [][(FormatErrorPending /\ handleSwap) =>
          UNCHANGED <<amountVars, sendError, receiveError,
                      transactionMinutes>>]_vars

\* C12 witness: the receive field holds the "numbers only" error over
\* swapped assets and the send field a balance error, where the swap control
\* can be pressed.
C12_FormatErrorPending ==
    /\ receiveError = ERROR_MESSAGES.NUMBERS_ONLY
    /\ sendError = ERROR_MESSAGES.INSUFFICIENT_USDT
    /\ sendCurrency = "USDT"
    /\ ~isSuccess

\* C13: a swap attempted with no format error pending exchanges the two
\* (amount, asset) pairs, empties the receive error and, once complete,
\* leaves the send error equal to the validation of the new send amount
\* against the balance of the new send asset.
C13_SwapExchangesAndRevalidates ==
    [][(~FormatErrorPending /\ handleSwap) =>
          /\ sendAmount' = receiveAmount
          /\ sendCurrency' = receiveCurrency
          /\ receiveAmount' = sendAmount
          /\ receiveCurrency' = sendCurrency
          /\ receiveError' = ""
          /\ sendError' = validateAmount(sendAmount', sendCurrency')]_vars

\* C13, of the second definition, whose balance error names ETH only.
C13_SwapExchangesAndRevalidates2 ==
    [][(~FormatErrorPending /\ handleSwap2) =>
          /\ sendAmount' = receiveAmount
          /\ sendCurrency' = receiveCurrency
          /\ receiveAmount' = sendAmount
          /\ receiveCurrency' = sendCurrency
          /\ receiveError' = ""
          /\ sendError' = validateAmount(sendAmount', sendCurrency')]_vars

\* Every character is a digit or the point, and there is at most one point.
WellFormedNumber(s) ==
    /\ \A i \in 1..Len(s) : IsDigit(s[i]) \/ s[i] = "."
    /\ Cardinality({i \in 1..Len(s) : s[i] = "."}) <= 1

\* Number of characters after the point of a well-formed number.
DecimalsOf(s) ==
    IF \E i \in 1..Len(s) : s[i] = "."
    THEN Len(s) - (CHOOSE i \in 1..Len(s) : s[i] = ".")
    ELSE 0

\* A valid numeric amount written within the precision of the asset.
WithinPrecision(s, currency) ==
    /\ WellFormedNumber(s)
    /\ ~parseFloat(s).nan
    /\ DecimalsOf(s) <= CURRENCIES[currency].precision

\* The number x, which has at most p decimals, in units of 10^-p.
UnitsOf(x, p) == x.n * Pow10(p) + x.f \div Pow10(MaxFracDigits - p)

AbsDiff(a, b) == IF a >= b THEN a - b ELSE b - a

\* Distance between the amount and its conversion there and back, in units
\* of the last decimal place of the source asset.
RoundTripError(amount, from, to) ==
    AbsDiff(
      UnitsOf(parseFloat(
                calculateExchangeAmount(
                  calculateExchangeAmount(amount, from, to), to, from)),
              CURRENCIES[from].precision),
      UnitsOf(parseFloat(amount), CURRENCIES[from].precision))

\* C14 as stated: for every valid amount within the precision of the source
\* asset, converting to the other asset and back yields a value within one
\* unit of the last decimal place of the source asset.
C14_RoundTripWithinOneUnit ==
    [][ConvertCall =>
          (WithinPrecision(sendAmount, sendCurrency) =>
              RoundTripError(sendAmount, sendCurrency, receiveCurrency)
                <= 1)]_vars

\* C14 amended: from ETH the round trip returns the amount itself; from
\* USDT it returns a value within 0.11 USDT, the rounding of the ETH amount
\* to four decimals being worth up to 0.00005 * 2184.33 USDT.
C14_RoundTripWithinTolerance ==
    [][ConvertCall =>
          (WithinPrecision(sendAmount, sendCurrency) =>
              RoundTripError(sendAmount, sendCurrency, receiveCurrency)
                <= (IF sendCurrency = "ETH" THEN 0 ELSE 11))]_vars

\* C14 witness: 1 USDT converted to 0.0005 ETH, which converts back to 1.09.
C14_OneUsdtConverted ==
    /\ sendAmount = <<"1">>
    /\ sendCurrency = "USDT"
    /\ receiveAmount = <<"0", ".", "0", "0", "0", "5">>

\* Digits, a point and exactly p digits.
FixedPoint(s, p) ==
    /\ Len(s) >= p + 2
    /\ s[Len(s) - p] = "."
    /\ \A i \in 1..Len(s) : i # Len(s) - p => IsDigit(s[i])

\* The conversions the specification gives as examples, and their
\* counterparts in the other direction.
RateExamples ==
    { [from |-> "ETH", amount |-> <<"2", ".", "0", "0">>,
       result |-> <<"4", "3", "6", "8", ".", "6", "6">>],
      [from |-> "ETH", amount |-> <<"1">>,
       result |-> <<"2", "1", "8", "4", ".", "3", "3">>],
      [from |-> "USDT", amount |-> <<"1", "0", "0", "0">>,
       result |-> <<"0", ".", "4", "5", "7", "8">>],
      [from |-> "USDT", amount |-> <<"1", "0", "0", "0", "0">>,
       result |-> <<"4", ".", "5", "7", "8", "1">>] }

\* What the converter is to return for the amount: nothing for an empty or
\* unparseable amount, and otherwise a fixed-point number with the decimals
\* of the target asset, which for the examples is the product with the rate.
ConverterContract(amount, from, to, result) ==
    IF amount = <<>> \/ parseFloat(amount).nan
    THEN result = <<>>
    ELSE /\ FixedPoint(result, CURRENCIES[to].precision)
         /\ \A ex \in RateExamples :
               (ex.from = from /\ ex.amount = amount) => result = ex.result

\* C15, of the converters of the second definition: each conversion a
\* change handler performs meets the converter's contract.
C15_ConverterContract2 ==
    [][\A value \in Inputs :
          /\ (handleSendAmountChange2(value) /\ sendError' = "") =>
                ConverterContract(value, sendCurrency, receiveCurrency,
                                  receiveAmount')
          /\ (handleReceiveAmountChange2(value) /\ receiveError' = "") =>
                ConverterContract(value, receiveCurrency, sendCurrency,
                                  sendAmount')]_vars

\* C15, of calculateExchangeAmount.
C15_ConverterContract1 ==
    [][ConvertCall =>
          ConverterContract(sendAmount, sendCurrency, receiveCurrency,
                            receiveAmount')]_vars

RECURSIVE DropCommas(_)
DropCommas(s) ==
    IF s = <<>> THEN <<>>
    ELSE IF Head(s) = "," THEN DropCommas(Tail(s))
    ELSE <<Head(s)>> \o DropCommas(Tail(s))

\* C16: the raw input loses its grouping commas before the check, and the
\* check rejects a string with the "numbers only" error exactly if it is
\* not made of digits with at most one point.
C16_FormatCheckAcceptsNumbers ==
    [][/\ StripCall => sendAmount' = DropCommas(sendAmount)
       /\ ValidateCall =>
             (sendError' = ERROR_MESSAGES.NUMBERS_ONLY
                <=> ~WellFormedNumber(sendAmount))]_vars

\* C16 witness: a string with a grouping comma left in it was rejected.
C16_CommaRejected ==
    /\ sendAmount = <<"1", "0", ",", "0", "0", "0">>
    /\ sendError = ERROR_MESSAGES.NUMBERS_ONLY

\* The fixed balances: ETH 2.98, USDT 10000.
FixedBalance(currency) ==
    IF currency = "ETH" THEN Num(2, 98 * Pow10(MaxFracDigits - 2))
    ELSE Num(10000, 0)

\* The outcome of validation, format first.
ExpectedValidation(amount, currency) ==
    IF ~WellFormedNumber(amount) THEN ERROR_MESSAGES.NUMBERS_ONLY
    ELSE IF \/ amount = <<>>
            \/ /\ IsPositive(parseFloat(amount))
               /\ Leq(parseFloat(amount), FixedBalance(currency))
    THEN ""
    ELSE InsufficientError(currency)

\* C17: validation yields the "numbers only" error if the format check
\* fails, otherwise no error for an empty amount or one with 0 < v <= the
\* balance of the asset, otherwise the insufficient-balance error of the
\* asset.
C17_ValidationOutcome ==
    [][ValidateCall =>
          sendError' = ExpectedValidation(sendAmount, sendCurrency)]_vars

\* C17 witness: a lone point validated against the USDT balance.
C17_LonePointInsufficient ==
    /\ sendAmount = <<".">>
    /\ sendCurrency = "USDT"
    /\ sendError = ERROR_MESSAGES.INSUFFICIENT_USDT

\* C18: in every reachable state the estimated transaction time is a whole
\* number of minutes between 5 and 30.
C18_MinutesBetween5And30 ==
    /\ ~transactionMinutes.nan
    /\ transactionMinutes.v \in 5..30

\* The dollar value of the larger of the two amounts, each in its asset.
LargerUsdValue(sa, sc, ra, rc) ==
    MathMax(UsdValue(sa, sc), UsdValue(ra, rc))

\* The estimate m is one the formula allows for the dollar value: between
\* its results for the smallest and for the largest random factor.
EstimateAllowed(m, value) ==
    /\ ~m.nan
    /\ calculateTransactionMinutes(value, "zero").v <= m.v
    /\ m.v <= calculateTransactionMinutes(value, "almost one").v

\* C19: after a swap that is not blocked, the estimated time is one the
\* formula allows for the larger dollar value of the two amounts, each
\* valued in the asset it is paired with after the swap.
C19_SwapEstimateUsesNewAssets ==
    [][(~FormatErrorPending /\ handleSwap) =>
          (~LargerUsdValue(sendAmount', sendCurrency', receiveAmount',
                           receiveCurrency').nan =>
              EstimateAllowed(
                transactionMinutes',
                LargerUsdValue(sendAmount', sendCurrency', receiveAmount',
                               receiveCurrency')))]_vars

\* C20: at most one confirm-completion callback is pending.
C20_OneConfirmPending == Len(confirmTimers) <= 1

\* C20 witness: a callback is pending and an edit made meanwhile has left a
\* balance error.
C20_EditedWhilePending ==
    /\ Len(confirmTimers) = 1
    /\ isLoading
    /\ sendError = ERROR_MESSAGES.INSUFFICIENT_ETH

\* C21: the edit that makes the run of identical non-empty errors of its
\* field reach length three starts the shake of that field, and an edit
\* that makes the run shorter does not.  The run before a send edit has
\* length sendErrorCount + 1 if the error repeats the one recorded in
\* prevSendErrorRef.
C21_ShakeOnThirdSameError ==
    [][\A value \in ShakeInputs :
          /\ handleSendAmountChange(value) =>
                /\ (sendError' # "" /\ sendError' = prevSendErrorRef
                      /\ sendErrorCount = 1) =>
                      (shakeSendError' /\ sendShakeTimers' > sendShakeTimers)
                /\ (sendError' # prevSendErrorRef \/ sendErrorCount = 0) =>
                      sendShakeTimers' = sendShakeTimers
          /\ handleReceiveAmountChange(value) =>
                /\ (receiveError' # "" /\ receiveError' = prevReceiveErrorRef
                      /\ receiveErrorCount = 1) =>
                      (shakeReceiveError'
                         /\ receiveShakeTimers' > receiveShakeTimers)
                /\ (receiveError' # prevReceiveErrorRef
                      \/ receiveErrorCount = 0) =>
                      receiveShakeTimers' = receiveShakeTimers]_vars

\* An edit of either field that changes the state.
ShakeEditStep ==
    \E value \in ShakeInputs :
        handleSendAmountChange(value) \/ handleReceiveAmountChange(value)

\* C22: with the shake resets run fairly, a behaviour either has infinitely
\* many edits or ends with both shake flags false for good.
C22_ShakeEventuallyCleared ==
    \/ []<><<ShakeEditStep>>_vars
    \/ <>[](~shakeSendError /\ ~shakeReceiveError)

\* C22 witness: the send shake flag is set while two of its resets are
\* pending.
C22_OverlappingResets ==
    /\ shakeSendError
    /\ sendShakeTimers = 2

\* The form is shown, idle, and neither field has an error.
ConfirmReady ==
    /\ ~isSuccess
    /\ ~ConfirmDisabled

\* C23: there is no irrecoverable error state.  A send edit with the amount
\* 1 in an idle editing state leaves both errors empty and the confirm
\* control enabled, it changes every idle editing state that is not yet
\* such a state, and when the timeout, the reset and that edit are not
\* withheld for ever such a state is reached again and again.
C23_AlwaysRecoverable ==
    /\ [][(~isSuccess /\ ~isLoading /\ handleSendAmountChange(<<"1">>))
             => ConfirmReady']_vars
    /\ []((~isSuccess /\ ~isLoading /\ ~ConfirmReady)
             => ENABLED <<handleSendAmountChange(<<"1">>)
                            /\ UNCHANGED formLeaving>>_vars)
    /\ []<>ConfirmReady

\* C23 witness: the confirmed state is shown while the send field still
\* carries an error raised during the confirmation.
C23_ConfirmedWithError ==
    /\ isSuccess
    /\ sendError # ""

\* C24: the send asset and the receive asset are always distinct, so every
\* conversion the form makes is between the two assets of CurrencyPairs.
C24_AssetsDistinct ==
    /\ sendCurrency # receiveCurrency
    /\ <<sendCurrency, receiveCurrency>> \in CurrencyPairs

\* C24 witness: the assets after a swap.
C24_AssetsSwapped ==
    /\ sendCurrency = "USDT"
    /\ receiveCurrency = "ETH"

\* C25: the receive error is empty or the "numbers only" error, and a
\* balance error of the send field names the selected send asset.
C25_ErrorsMatchFieldAndAsset ==
    /\ receiveError \in {"", ERROR_MESSAGES.NUMBERS_ONLY}
    /\ sendError = ERROR_MESSAGES.INSUFFICIENT_ETH => sendCurrency = "ETH"
    /\ sendError = ERROR_MESSAGES.INSUFFICIENT_USDT => sendCurrency = "USDT"

\* C25 witness: both errors are shown at once while ETH is sent.
C25_EthBalanceAndFormatError ==
    /\ sendError = ERROR_MESSAGES.INSUFFICIENT_ETH
    /\ receiveError = ERROR_MESSAGES.NUMBERS_ONLY
    /\ sendCurrency = "ETH"

\* C27: while the form is shown with the confirm control enabled, the send
\* amount is a non-empty number v with 0 < v <= the balance of the send
\* asset and the receive amount is a non-empty number.
C27_ConfirmOnlyWithValidAmounts ==
    ConfirmReady =>
        /\ sendAmount # <<>>
        /\ WithinBalance(sendAmount, sendCurrency)
        /\ receiveAmount # <<>>
        /\ ~parseFloat(receiveAmount).nan

\* The swap control, pressed in the current state, gives the amounts and
\* assets sa, sc, ra, rc and no others.
SwapYields(sa, sc, ra, rc) ==
    /\ ENABLED (handleSwap /\ sendAmount' = sa /\ sendCurrency' = sc
                  /\ receiveAmount' = ra /\ receiveCurrency' = rc)
    /\ ~ENABLED (handleSwap /\ ~(sendAmount' = sa /\ sendCurrency' = sc
                                   /\ receiveAmount' = ra
                                   /\ receiveCurrency' = rc))

C26_ConfirmedStateIsFrozen ==
    /\ [](~(isLoading /\ isSuccess))
    /\ [][isSuccess =>
            \/ NewExchange
            \/ UNCHANGED <<amountVars, sendErrorVars, receiveErrorVars,
                           transactionMinutes, confirmVars>>]_vars

=============================================================================
